---- MODULE Spec2Model ----
(***************************************************************************)
(* State-machine model of the pliro_server backend: the Project and        *)
(* Standard services, their HTTP routes, the object-storage adapter, the   *)
(* structured-inference adapter and the response cache.                    *)
(*                                                                         *)
(* A request is served by a slot r.  A handler runs from one await to the  *)
(* next in one step, so two requests interleave at their awaits.  The     *)
(* database holds what has been committed; what a request has loaded or    *)
(* changed in its session and not committed lives in its slot.             *)
(***************************************************************************)
EXTENDS Integers, Sequences, FiniteSets, TLC

\* ------------------------------------------------------------------ bounds
NumReqs == 2          \* request slots served concurrently
MaxStarted == 3       \* requests started in one behaviour
MaxProjects == 2      \* project ids handed out
MaxTokens == 2        \* distinct documents the remote model can answer
MaxStandards == 2     \* standard ids handed out
MaxRevisionId == 3    \* revision ids handed out
MaxRevs == 2          \* entries of one revisions payload
MaxPage == 1          \* page numbers a client asks for
MaxSessions == 2      \* distinct addresses a request's session object can have
MaxFiles == 2         \* files or ids of one bulk request

Slots == 1..NumReqs
ProjectIds == 1..MaxProjects
Tokens == 1..MaxTokens
StandardIds == 1..MaxStandards
RevisionIds == 1..MaxRevisionId
Pages == 0..MaxPage
Sessions == 1..MaxSessions

VARIABLES
    projects,         \* table projects: id -> row
    next_project_id,  \* the primary-key sequence of projects
    standards,        \* table standards: id -> row
    next_standard_id, \* the primary-key sequence of standards
    revisions,        \* table revisions: id -> row
    next_revision_id, \* the primary-key sequence of revisions
    blobs,            \* the objects in the object store
    next_blob,        \* the next generated object name (uuid4)
    cache,            \* the cache store: key -> entry
    req,              \* slot -> the request it serves and that request's locals
    started,          \* requests started so far
    response,         \* the response of the request that ended last
    map_log           \* project id -> the documents mapping runs committed, in order

projectVars == <<projects, next_project_id, map_log>>
standardVars == <<next_standard_id, revisions, next_revision_id, blobs, next_blob, cache>>
vars == <<projects, next_project_id, map_log, standards, next_standard_id, revisions,
          next_revision_id, blobs, next_blob, cache, req, started, response>>

\* --------------------------------------------------------------- documents
\* A JSON document, seen through the three keys of the target schema: 0 is a
\* key that is missing or of the wrong type, a token is a well-typed value.
Doc(m, s, c) == [mappings |-> m, summary |-> s, confidence_score |-> c]
NoDoc == Doc(0, 0, 0)

\* ProjectStandardListResponse: mappings, summary and confidence_score are required.
ProjectStandardListResponse(d) ==
    d.mappings # 0 /\ d.summary # 0 /\ d.confidence_score # 0

\* file_path values: the blob a path names and how many times it was presigned.
Path(b) == [blob |-> b, signed |-> 0]
generate_presigned_url(p) == [p EXCEPT !.signed = @ + 1]

\* ------------------------------------------------- structured-inference adapter
\* What the remote model can do with one request.
RemoteOutcomes ==
    {[kind |-> "exception", doc |-> NoDoc], [kind |-> "refusal", doc |-> NoDoc]}
    \cup {[kind |-> "content", doc |-> Doc(t, t, t)] : t \in Tokens}
    \cup {[kind |-> "content", doc |-> Doc(t, 0, t)] : t \in Tokens}

\* A parse that checks no schema (as chat.completions.create would).
ParseRaisesUnchecked(raw) == raw.kind = "exception"

\* beta.chat.completions.parse(response_format = schema): the content is
\* validated against the schema, a content that does not conform raises.
ParseRaises(raw) ==
    \/ raw.kind = "exception"
    \/ raw.kind = "content" /\ ~ProjectStandardListResponse(raw.doc)

\* call_openai_structured: the message content, or "Error: ..." on any exception.
call_openai_structured(raw) ==
    IF ParseRaises(raw) THEN [kind |-> "error_string", doc |-> NoDoc]
    ELSE IF raw.kind = "refusal" THEN [kind |-> "none", doc |-> NoDoc]
    ELSE [kind |-> "json", doc |-> raw.doc]

\* A json.loads that accepts any return value.
JsonLoadsAlwaysOk(ret) == TRUE

\* json.loads succeeds on JSON text only (not on "Error: ...", not on None).
JsonLoadsOk(ret) == ret.kind = "json"
json_loads(ret) == ret.doc

\* ------------------------------------------------------------------ requests
\* A slot serves a request that spans several awaits; op "none" is a free slot.
\* ret is the adapter's return value as the handler holds it, mapped the parsed
\* document, dirty the standards whose file_path the session holds changed,
\* seen the number of mapping commits on the project when it was loaded.
\* A StandardPage: the items and the total.
NoPage == [items |-> {}, total |-> 0]

\* For the standards requests: sid the standard, revs the revisions payload
\* (<<>> when the payload has none), existing the ids of the revisions the
\* standard owned when it was loaded, file_path the loaded file_path,
\* storage_deletes the paths delete_file_from_do was called with and deleted
\* whether the last such call succeeded.  For GET /standards: page the page
\* asked for, session the address of the request's session object, items the
\* page returned and db_queries the number of queries the request ran.  For
\* GET /standards/{id}: detail the standard returned.  For the bulk requests:
\* files the number of files sent, todo what is left to process (file numbers
\* or standard ids) and results the statuses recorded so far.  logged counts
\* the invalidation errors the request printed.  For the uploads: dates the
\* issueDate and effectiveDate of the document the model returned, ret what
\* the model call returned and file_path the path the file was stored under.
\* list_invalidated tells whether the request has called
\* invalidate_standards_list_cache.
IdleReq ==
    [op |-> "none", pc |-> "idle", pid |-> 0, ret |-> "unset",
     mapped |-> <<>>, dirty |-> {}, seen |-> 0, adapter_calls |-> 0, commits |-> 0,
     sid |-> 0, revs |-> <<>>, existing |-> {}, file_path |-> <<>>,
     storage_deletes |-> <<>>, deleted |-> FALSE,
     page |-> 0, session |-> 0, items |-> NoPage, db_queries |-> 0,
     detail |-> <<>>, files |-> 0, todo |-> <<>>, results |-> <<>>, logged |-> 0,
     dates |-> <<>>, list_invalidated |-> FALSE]

\* The response of the request that ended last: its status and body, and the
\* request as it ended (q).
NoResponse == [status |-> 0, body |-> <<>>, q |-> IdleReq]

Respond(q, st, body) == [status |-> st, body |-> body, q |-> q]

\* What the response record keeps of an answered standards request: not the
\* revisions payload nor the revisions that were loaded.
Answered(q) == [q EXCEPT !.pc = "idle", !.revs = <<>>, !.existing = {}, !.dates = <<>>]

\* A new request is served by the first free slot (the slots are interchangeable).
SlotFree(r) == req[r].pc = "idle"
Free(r) ==
    /\ SlotFree(r)
    /\ \A q \in Slots : q < r => ~SlotFree(q)
    /\ started < MaxStarted

\* ------------------------------------------------------------ request models
\* ProjectCreateModel inherits standard_mapping from ProjectBase.
ProjectCreateModel(payload) ==
    [name |-> payload.name, standard_mapping |-> payload.standard_mapping]

\* ProjectUpdateModel declares no standard_mapping: the key is dropped.
ProjectUpdateModel(payload) ==
    [name |-> payload.name, standard_mapping |-> <<>>]

ClientDocs == {Doc(0, 1, 0)}
Names == {2}
CreatePayloads ==
    [name : {1}, standard_mapping : {<<>>} \cup {<<d>> : d \in ClientDocs}]
UpdatePayloads ==
    [name : {<<>>} \cup {<<n>> : n \in Names},
     standard_mapping : {<<>>} \cup {<<d>> : d \in ClientDocs}]

\* ------------------------------------------------------------ project service
get_project_by_id(pid) ==
    IF pid \in DOMAIN projects THEN <<projects[pid]>> ELSE <<>>

\* POST /projects, up to the commit of create_project.  The route goes on to
\* map_project_standard on the same session.
CreateProject(r, payload) ==
    /\ Free(r)
    /\ next_project_id <= MaxProjects
    /\ LET data == ProjectCreateModel(payload)
           row == [name |-> data.name, standard_mapping |-> data.standard_mapping]
       IN  /\ projects' = projects @@ (next_project_id :> row)
           /\ req' = [req EXCEPT ![r] =
                        [IdleReq EXCEPT !.op = "create_project", !.pc = "map_load",
                                        !.pid = next_project_id, !.commits = 1]]
    /\ next_project_id' = next_project_id + 1
    /\ map_log' = map_log @@ (next_project_id :> <<>>)
    /\ started' = started + 1
    /\ UNCHANGED <<standards, response, standardVars>>

\* update_project: set every key of the data that names a column, commit.
UpdatedRow(row, data) ==
    [name |-> IF data.name = <<>> THEN row.name ELSE data.name[1],
     standard_mapping |->
        IF data.standard_mapping = <<>> THEN row.standard_mapping
        ELSE data.standard_mapping]

\* PUT /projects/{id}: 400 on an empty payload, 404 on an unknown id.
UpdateProject(pid, payload) ==
    /\ started < MaxStarted
    /\ LET data == ProjectUpdateModel(payload)
           empty == data.name = <<>> /\ data.standard_mapping = <<>>
           q == [IdleReq EXCEPT !.op = "update_project", !.pid = pid]
       IN  IF empty
           THEN /\ response' = Respond(q, 400, <<>>)
                /\ UNCHANGED projects
           ELSE IF get_project_by_id(pid) = <<>>
           THEN /\ response' = Respond(q, 404, <<>>)
                /\ UNCHANGED projects
           ELSE /\ projects' = [projects EXCEPT ![pid] = UpdatedRow(@, data)]
                /\ response' = Respond([q EXCEPT !.commits = 1], 200,
                                       projects'[pid].standard_mapping)
    /\ started' = started + 1
    /\ UNCHANGED <<next_project_id, standards, req, map_log, standardVars>>

\* DELETE /projects/{id}
DeleteProject(pid) ==
    /\ started < MaxStarted
    /\ LET q == [IdleReq EXCEPT !.op = "delete_project", !.pid = pid]
       IN  IF get_project_by_id(pid) = <<>>
           THEN /\ response' = Respond(q, 404, <<>>)
                /\ UNCHANGED projects
           ELSE /\ projects' = [i \in DOMAIN projects \ {pid} |-> projects[i]]
                /\ response' = Respond([q EXCEPT !.commits = 1], 204, <<>>)
    /\ started' = started + 1
    /\ UNCHANGED <<next_project_id, standards, req, map_log, standardVars>>

\* POST /projects/{id}/map_standard arrives.
BeginMap(r, pid) ==
    /\ Free(r)
    /\ req' = [req EXCEPT ![r] =
                 [IdleReq EXCEPT !.op = "map_standard", !.pc = "map_load", !.pid = pid]]
    /\ started' = started + 1
    /\ UNCHANGED <<projects, next_project_id, standards, response, map_log, standardVars>>

\* The session's view of the project: the row just created stays in the
\* session's identity map (expire_on_commit = False), any other is read.
SessionProject(r) ==
    IF req[r].op = "create_project" THEN <<req[r].pid>>
    ELSE IF get_project_by_id(req[r].pid) = <<>> THEN <<>> ELSE <<req[r].pid>>

\* A load that never sees a missing project.
ProjectNeverNone(p) == FALSE

\* if project is None: return None
ProjectIsNone(p) == p = <<>>

\* get_all_standards: every loaded standard with a file_path gets the
\* presigned url assigned to file_path, on the session's object.
LoadedFilePaths ==
    {[id |-> s, file_path |-> generate_presigned_url(standards[s].file_path[1])] :
        s \in {x \in DOMAIN standards : standards[x].file_path # <<>>}}

\* map_project_standard, lines 146-155: load the project, None if absent (the
\* route turns None into 404), then load the catalog.
MapLoad(r) ==
    /\ req[r].pc = "map_load"
    /\ IF ProjectIsNone(SessionProject(r))
       THEN /\ response' = Respond(req[r], 404, <<>>)
            /\ req' = [req EXCEPT ![r] = IdleReq]
       ELSE /\ req' = [req EXCEPT ![r] =
                         [@ EXCEPT !.pc = "map_infer",
                                   !.dirty = LoadedFilePaths,
                                   !.seen = IF req[r].pid \in DOMAIN projects
                                            THEN Len(map_log[req[r].pid]) ELSE 0]]
            /\ UNCHANGED response
    /\ UNCHANGED <<projects, next_project_id, standards, started, map_log, standardVars>>

\* Lines 229-236: the inference call and json.loads; any exception is a 500.
\* After POST /projects the route catches the HTTPException and returns the
\* created project as it is in the session.
MapInfer(r, raw) ==
    /\ req[r].pc = "map_infer"
    /\ LET ret == call_openai_structured(raw)
           called == [req[r] EXCEPT !.adapter_calls = @ + 1, !.ret = ret.kind]
       IN  IF JsonLoadsOk(ret)
           THEN /\ req' = [req EXCEPT ![r] =
                             [called EXCEPT !.pc = "map_commit",
                                            !.mapped = <<json_loads(ret)>>]]
                /\ UNCHANGED response
           ELSE /\ response' =
                      IF req[r].op = "create_project"
                      THEN Respond(called, 201,
                                   IF req[r].pid \in DOMAIN projects
                                   THEN projects[req[r].pid].standard_mapping ELSE <<>>)
                      ELSE Respond(called, 500, <<>>)
                /\ req' = [req EXCEPT ![r] = IdleReq]
    /\ UNCHANGED <<projects, next_project_id, standards, started, map_log, standardVars>>

\* An assignment that keeps a mapping that is already there.
AssignMappingIfNull(old, new) == IF old = <<>> THEN new ELSE old

\* An assignment that merges into the document that is already there.
AssignMappingMerged(old, new) ==
    IF old = <<>> THEN new
    ELSE <<Doc(old[1].mappings, new[1].summary, new[1].confidence_score)>>

\* project.standard_mapping = mapped_data
AssignMapping(old, new) == new

\* The rows the session's flush updates must all still exist, or the commit
\* raises and rolls back.
FlushMatches(r) ==
    /\ req[r].pid \in DOMAIN projects
    /\ \A d \in req[r].dirty : d.id \in DOMAIN standards

\* Lines 240-244 and the route's return: one commit writes the project's
\* standard_mapping and every other change pending in the session.
MapCommit(r) ==
    /\ req[r].pc = "map_commit"
    /\ IF FlushMatches(r)
       THEN /\ projects' = [projects EXCEPT ![req[r].pid].standard_mapping =
                               AssignMapping(@, req[r].mapped)]
            /\ standards' = [s \in DOMAIN standards |->
                               IF \E d \in req[r].dirty : d.id = s
                               THEN [standards[s] EXCEPT !.file_path =
                                       <<(CHOOSE d \in req[r].dirty : d.id = s).file_path>>]
                               ELSE standards[s]]
            /\ map_log' = [map_log EXCEPT ![req[r].pid] = Append(@, req[r].mapped[1])]
            /\ response' = Respond([req[r] EXCEPT !.commits = @ + 1],
                                   IF req[r].op = "create_project" THEN 201 ELSE 200,
                                   projects'[req[r].pid].standard_mapping)
       ELSE /\ response' = Respond(req[r], 500, <<>>)
            /\ UNCHANGED <<projects, standards, map_log>>
    /\ req' = [req EXCEPT ![r] = IdleReq]
    /\ UNCHANGED <<next_project_id, started, standardVars>>

\* ------------------------------------------------------------------- Spec
\* ---------------------------------------------------------------------
\* Standards, their revisions and their files.
\* ---------------------------------------------------------------------

SeqsUpTo(S, n) == UNION {[1..k -> S] : k \in 0..n}

\* issueDate and effectiveDate of a row: a date or null.  The dates of a
\* standard made by hand are among its scalar fields and are left null here.
NoDate == <<>>

\* RevisionBase: id is None (0) or an integer; the three required strings
\* revision_number, revision_date and revision_description travel together
\* and are one value here.
RevisionNumbers == {1, 2}
RevisionBase == [id : {0} \cup RevisionIds, revision_number : RevisionNumbers]

\* What POST /standards reads from the form: the revisions and the file; the
\* scalar fields of a created standard are one value.
CreateRevisions == {e \in RevisionBase : e.id \in {0, 1} /\ e.revision_number = 1}
StandardCreatePayloads ==
    [file : BOOLEAN, revisions : SeqsUpTo(CreateRevisions, MaxRevs)]

\* What PUT /standards/{id} reads from the form; an absent field is <<>>.
StandardUpdatePayloads ==
    [name : {<<>>, <<2>>}, file : BOOLEAN,
     revisions : {<<>>} \cup {<<s>> : s \in SeqsUpTo(RevisionBase, MaxRevs)}]

\* upload_file_to_do stores the file under a generated name and returns the
\* path of the object; delete_file_from_do removes the object the path names
\* and reports whether it did, without raising.
upload_file_to_do == Path(next_blob)
delete_file_from_do(path, ok) ==
    IF ok /\ path.signed = 0 THEN blobs \ {path.blob} ELSE blobs

get_standard_by_id(sid) == IF sid \in DOMAIN standards THEN <<standards[sid]>> ELSE <<>>

\* standard.revisions: the ids of the revisions the standard owns.
OwnedRevisions(sid) == {id \in DOMAIN revisions : revisions[id].standard_id = sid}

Restrict(f, S) == [x \in S |-> f[x]]

\* create_standard's loop: one Revision per payload entry, owned by the new
\* standard; the entry's id is not read.
NewRevisionsNoneForLast(entries, sid, base) ==
    [id \in base..(base + Len(entries) - 2) |->
        [standard_id |-> sid, revision_number |-> entries[id - base + 1].revision_number]]
NewRevisions(entries, sid, base) ==
    [id \in base..(base + Len(entries) - 1) |->
        [standard_id |-> sid, revision_number |-> entries[id - base + 1].revision_number]]

\* POST /standards up to the return of create_standard.  The upload, the
\* flush and the commit are taken as one step: no other request runs between
\* them.
CreateStandard(r, payload, put_ok) ==
    /\ Free(r)
    /\ next_standard_id <= MaxStandards
    /\ next_revision_id + Len(payload.revisions) - 1 <= MaxRevisionId
    /\ started' = started + 1
    /\ IF payload.file /\ ~put_ok
       THEN /\ response' = Respond([IdleReq EXCEPT !.op = "create_standard"], 500, <<>>)
            /\ UNCHANGED <<standards, next_standard_id, revisions, next_revision_id,
                           blobs, next_blob, req>>
       ELSE LET sid == next_standard_id
                created == NewRevisions(payload.revisions, sid, next_revision_id)
            IN  /\ blobs' = IF payload.file THEN blobs \cup {next_blob} ELSE blobs
                /\ next_blob' = IF payload.file THEN next_blob + 1 ELSE next_blob
                /\ standards' = sid :> [name |-> 1,
                                        file_path |-> IF payload.file
                                                      THEN <<upload_file_to_do>> ELSE <<>>,
                                        approval_status |-> "approved",
                                        issueDate |-> NoDate, effectiveDate |-> NoDate] @@ standards
                /\ next_standard_id' = sid + 1
                /\ revisions' = created @@ revisions
                /\ next_revision_id' = next_revision_id + Len(payload.revisions)
                /\ req' = [req EXCEPT ![r] = [IdleReq EXCEPT
                              !.op = "create_standard", !.pc = "invalidate", !.sid = sid,
                              !.revs = <<payload.revisions>>, !.commits = 1,
                              !.file_path = IF payload.file
                                            THEN <<upload_file_to_do>> ELSE <<>>]]
                /\ UNCHANGED response
    /\ UNCHANGED <<projectVars, cache>>

\* update_standard_revisions: an entry whose id is one of the standard's
\* revisions updates that revision in place; every other entry becomes a new
\* revision; the standard's collection is replaced by the result, and the
\* delete-orphan cascade removes the revisions that left it.
RecognizedNever(e, existing) == FALSE
RecognizedAnyRow(e, existing) == e.id # 0 /\ e.id \in DOMAIN revisions
Recognized(e, existing) == e.id # 0 /\ e.id \in existing

OrphansKept(existing, entries) == {}
Orphans(existing, entries) == existing \ {entries[i].id : i \in DOMAIN entries}

NewEntries(entries, existing) ==
    {i \in DOMAIN entries : ~Recognized(entries[i], existing)}

update_standard_revisions(sid, entries) ==
    LET existing == OwnedRevisions(sid)
        newIdx == NewEntries(entries, existing)
        FreshId(i) == next_revision_id + Cardinality({j \in newIdx : j < i})
        LastWith(id) == CHOOSE i \in DOMAIN entries :
                           /\ entries[i].id = id
                           /\ \A j \in DOMAIN entries : entries[j].id = id => j <= i
        updated == [id \in {entries[i].id : i \in DOMAIN entries \ newIdx} |->
                       [standard_id |-> sid,
                        revision_number |-> entries[LastWith(id)].revision_number]]
        added == [id \in {FreshId(i) : i \in newIdx} |->
                     [standard_id |-> sid,
                      revision_number |->
                          entries[CHOOSE i \in newIdx : FreshId(i) = id].revision_number]]
    IN  added @@ updated
              @@ Restrict(revisions, DOMAIN revisions \ Orphans(existing, entries))

\* PUT /standards/{id} up to the return of update_standard.  The load, the
\* storage calls and the commit are taken as one step: no other request runs
\* between them.
UpdateStandard(r, sid, payload, del_ok, put_ok) ==
    /\ Free(r)
    /\ started' = started + 1
    /\ LET q == [IdleReq EXCEPT !.op = "update_standard", !.sid = sid]
           standard == get_standard_by_id(sid)
       IN
       IF payload.name = <<>> /\ payload.revisions = <<>> /\ ~payload.file
       THEN /\ response' = Respond(q, 400, <<>>)
            /\ UNCHANGED <<standards, revisions, next_revision_id, blobs, next_blob, req>>
       ELSE IF standard = <<>>
       THEN /\ response' = Respond(q, 404, <<>>)
            /\ UNCHANGED <<standards, revisions, next_revision_id, blobs, next_blob, req>>
       ELSE
       LET old == standard[1].file_path
           calls == IF payload.file /\ old # <<>> THEN old ELSE <<>>
           kept == IF calls # <<>> THEN delete_file_from_do(old[1], del_ok) ELSE blobs
           q1 == [q EXCEPT !.existing = OwnedRevisions(sid), !.file_path = old,
                           !.storage_deletes = calls,
                           !.deleted = (calls # <<>> /\ del_ok)]
       IN
       IF payload.file /\ ~put_ok
       THEN /\ blobs' = kept
            /\ response' = Respond(Answered(q1), 500, <<>>)
            /\ UNCHANGED <<standards, revisions, next_revision_id, next_blob, req>>
       ELSE /\ payload.revisions # <<>> =>
                 next_revision_id
                   + Cardinality(NewEntries(payload.revisions[1], OwnedRevisions(sid))) - 1
                     <= MaxRevisionId
            /\ blobs' = IF payload.file THEN kept \cup {next_blob} ELSE kept
            /\ next_blob' = IF payload.file THEN next_blob + 1 ELSE next_blob
            /\ standards' = [standards EXCEPT ![sid] =
                  [@ EXCEPT !.name = IF payload.name # <<>> THEN payload.name[1] ELSE @,
                            !.file_path = IF payload.file THEN <<upload_file_to_do>> ELSE @]]
            /\ revisions' = IF payload.revisions # <<>>
                            THEN update_standard_revisions(sid, payload.revisions[1])
                            ELSE revisions
            /\ next_revision_id' =
                  IF payload.revisions # <<>>
                  THEN next_revision_id
                         + Cardinality(NewEntries(payload.revisions[1], OwnedRevisions(sid)))
                  ELSE next_revision_id
            /\ req' = [req EXCEPT ![r] = [q1 EXCEPT !.pc = "invalidate", !.commits = 1,
                                                    !.revs = payload.revisions]]
            /\ UNCHANGED response
    /\ UNCHANGED <<projectVars, next_standard_id, cache>>

\* delete_standard up to the storage call: the standard is loaded and, when
\* it has a file_path, delete_file_from_do is called with it.
StorageDeleteCalls(file_path) == file_path

DeleteLoadAs(op, r, sid, del_ok) ==
    /\ Free(r)
    /\ started' = started + 1
    /\ LET q == [IdleReq EXCEPT !.op = op, !.sid = sid]
           standard == get_standard_by_id(sid)
       IN
       IF standard = <<>>
       THEN /\ response' = Respond(q, 404, <<>>)
            /\ UNCHANGED <<blobs, req>>
       ELSE LET calls == StorageDeleteCalls(standard[1].file_path)
            IN  /\ blobs' = IF calls # <<>> THEN delete_file_from_do(calls[1], del_ok)
                            ELSE blobs
                /\ req' = [req EXCEPT ![r] = [q EXCEPT
                              !.pc = "delete_commit", !.file_path = standard[1].file_path,
                              !.existing = OwnedRevisions(sid),
                              !.storage_deletes = calls,
                              !.deleted = (calls # <<>> /\ del_ok)]]
                /\ UNCHANGED response
    /\ UNCHANGED <<projectVars, standards, next_standard_id, revisions, next_revision_id,
                   next_blob, cache>>

DeleteStandardLoad(r, sid, del_ok) == DeleteLoadAs("delete_standard", r, sid, del_ok)

\* reject_standard is delete_standard.
RejectStandardLoad(r, sid, del_ok) == DeleteLoadAs("reject_standard", r, sid, del_ok)

\* The revisions that go with a deleted standard: those the session loaded,
\* by the ORM cascade, and any other that references it, by ON DELETE CASCADE.
CascadeDeletedNone(sid) == {}
CascadeDeleted(sid) == OwnedRevisions(sid)

\* session.delete and commit: the row goes, and its revisions with it; the
\* outcome of the storage call is not consulted.
DeleteProceedsIfStored(q) == q.storage_deletes = <<>> \/ q.deleted
DeleteProceeds(q) == TRUE

DeleteStandardCommit(r) ==
    /\ req[r].pc = "delete_commit"
    /\ LET sid == req[r].sid
       IN
       IF DeleteProceeds(req[r])
       THEN /\ standards' = Restrict(standards, DOMAIN standards \ {sid})
            /\ revisions' = Restrict(revisions, DOMAIN revisions \ CascadeDeleted(sid))
            /\ req' = [req EXCEPT ![r] = [@ EXCEPT !.pc = "invalidate", !.commits = 1]]
            /\ UNCHANGED response
       ELSE /\ response' = Respond(req[r], 500, <<>>)
            /\ req' = [req EXCEPT ![r] = IdleReq]
            /\ UNCHANGED <<standards, revisions>>
    /\ UNCHANGED <<projectVars, next_standard_id, next_revision_id, blobs, next_blob,
                   cache, started>>

\* POST /standards/{id}/approve up to the return of approve_standard: the
\* load and the commit are taken as one step.
ApprovedStatusKept(old) == old
ApprovedStatusReset(old) == "pending"
ApprovedStatus(old) == "approved"

ApproveStandard(r, sid) ==
    /\ Free(r)
    /\ started' = started + 1
    /\ LET q == [IdleReq EXCEPT !.op = "approve_standard", !.sid = sid]
       IN
       IF get_standard_by_id(sid) = <<>>
       THEN /\ response' = Respond(q, 404, <<>>)
            /\ UNCHANGED <<standards, req>>
       ELSE /\ standards' = [standards EXCEPT ![sid].approval_status = ApprovedStatus(@)]
            /\ req' = [req EXCEPT ![r] = [q EXCEPT !.pc = "invalidate", !.commits = 1]]
            /\ UNCHANGED response
    /\ UNCHANGED <<projectVars, next_standard_id, revisions, next_revision_id,
                   blobs, next_blob, cache>>

\* ---------------------------------------------------------------------
\* Upload with inference.
\* ---------------------------------------------------------------------

\* A JSON document seen through the keys of OpenAIStandardModel that the
\* service reads: the name (0 when the content does not conform), the
\* revisions, each with its three strings as one value, and the two dates,
\* each null (<<>>) or a text.
StandardDoc(n, revs) ==
    [name |-> n, revisions |-> revs, issueDate |-> <<>>, effectiveDate |-> <<>>]
NoStandardDoc == StandardDoc(0, <<>>)
OpenAIStandardModel(d) == d.name # 0

InferredRevisions == SeqsUpTo({[id |-> 0, revision_number |-> 1]}, MaxRevs)

\* What the remote model can do with one extraction request.
ExtractOutcomes ==
    {[kind |-> "exception", doc |-> NoStandardDoc],
     [kind |-> "refusal", doc |-> NoStandardDoc],
     [kind |-> "content", doc |-> NoStandardDoc]}
    \cup {[kind |-> "content", doc |-> StandardDoc(1, revs)] : revs \in InferredRevisions}

\* call_openai_structured(prompt, OpenAIStandardModel).
ExtractRaises(raw) ==
    \/ raw.kind = "exception"
    \/ raw.kind = "content" /\ ~OpenAIStandardModel(raw.doc)

call_openai_structured_standard(raw) ==
    IF ExtractRaises(raw) THEN [kind |-> "error_string", doc |-> NoStandardDoc]
    ELSE IF raw.kind = "refusal" THEN [kind |-> "none", doc |-> NoStandardDoc]
    ELSE [kind |-> "json", doc |-> raw.doc]

\* The text of a date: empty, or written as year-month-day ("iso") or in
\* another way, with the month and the day it names (of a year that is not a
\* leap year).
MaxMonth == 13
MaxDay == 30
DateTexts ==
    {[fmt |-> "empty", month |-> 0, day |-> 0]}
    \cup [fmt : {"iso", "other"}, month : {2}, day : {28}]
    \cup [fmt : {"iso"}, month : {2, MaxMonth}, day : {MaxDay}]
DateStrings == {NoDate} \cup {<<t>> : t \in DateTexts}

DaysIn(month) == IF month = 2 THEN 28 ELSE IF month \in {4, 6, 9, 11} THEN 30 ELSE 31

\* datetime.strptime(text, '%Y-%m-%d') raises unless the text has the format
\* and names a day of the calendar.
strptime_raises(text) ==
    ~(text.fmt = "iso" /\ text.month \in 1..12 /\ text.day \in 1..DaysIn(text.month))
Date(text) == [month |-> text.month, day |-> text.day]

\* parse_date: None for None and for the empty text; the date for a text that
\* strptime accepts; None when strptime raises.
parse_date_unchecked(date_str) ==
    IF date_str = NoDate \/ date_str[1].fmt = "empty" THEN NoDate
    ELSE <<Date(date_str[1])>>
parse_date(date_str) ==
    IF date_str = NoDate \/ date_str[1].fmt = "empty" THEN NoDate
    ELSE IF strptime_raises(date_str[1]) THEN NoDate
    ELSE <<Date(date_str[1])>>

\* The documents of the extraction with their dates.
DatedOutcomes ==
    {[kind |-> "exception", doc |-> NoStandardDoc],
     [kind |-> "refusal", doc |-> NoStandardDoc]}
    \cup {[kind |-> "content",
           doc |-> [StandardDoc(1, revs) EXCEPT !.issueDate = i, !.effectiveDate = e]] :
             revs \in {<<>>}, i \in DateStrings, e \in DateStrings}

\* add_standard_revisions: one Revision per revision of the document, appended
\* to the new standard.
add_standard_revisions(doc, sid, base) == NewRevisions(doc.revisions, sid, base)

UploadedStatusDefault == "approved"
UploadedStatus == "pending"

\* The body shared by upload_standard and by one turn of the loop of
\* bulk_upload_standards: store the file, ask the model, parse, commit.  It
\* yields whether the item succeeded and what it leaves behind.
UploadOutcome(put_ok, raw) ==
    LET ret == call_openai_structured_standard(raw)
        stored == put_ok
        ok == put_ok /\ JsonLoadsOk(ret)
        sid == next_standard_id
        doc == json_loads(ret)
    IN  [ok |-> ok,
         blobs |-> IF stored THEN blobs \cup {next_blob} ELSE blobs,
         next_blob |-> IF stored THEN next_blob + 1 ELSE next_blob,
         standards |-> IF ok
                       THEN sid :> [name |-> doc.name, file_path |-> <<upload_file_to_do>>,
                                    approval_status |-> UploadedStatus,
                                    issueDate |-> parse_date(doc.issueDate),
                                    effectiveDate |-> parse_date(doc.effectiveDate)]
                                @@ standards
                       ELSE standards,
         revisions |-> IF ok
                       THEN add_standard_revisions(doc, sid, next_revision_id) @@ revisions
                       ELSE revisions,
         next_standard_id |-> IF ok THEN sid + 1 ELSE sid,
         next_revision_id |-> IF ok THEN next_revision_id + Len(doc.revisions)
                              ELSE next_revision_id,
         inferred |-> IF ok THEN <<doc.revisions>> ELSE <<>>,
         dates |-> IF ok THEN <<doc.issueDate, doc.effectiveDate>> ELSE <<>>,
         ret |-> IF put_ok THEN ret.kind ELSE "unset",
         stored |-> IF stored THEN <<upload_file_to_do>> ELSE <<>>]

UploadFits(raw) ==
    /\ next_standard_id <= MaxStandards
    /\ next_revision_id + Len(raw.doc.revisions) - 1 <= MaxRevisionId

ApplyUpload(out) ==
    /\ blobs' = out.blobs
    /\ next_blob' = out.next_blob
    /\ standards' = out.standards
    /\ revisions' = out.revisions
    /\ next_standard_id' = out.next_standard_id
    /\ next_revision_id' = out.next_revision_id

\* Any exception inside upload_standard is turned into HTTPException(400).
UploadFailureStatus == 400

\* POST /standards/upload up to the return of upload_standard, taken as one
\* step.
UploadStandard(r, put_ok, raw) ==
    /\ Free(r)
    /\ UploadFits(raw)
    /\ started' = started + 1
    /\ LET out == UploadOutcome(put_ok, raw)
           q == [IdleReq EXCEPT !.op = "upload_standard", !.sid = next_standard_id,
                                !.revs = out.inferred, !.dates = out.dates,
                                !.ret = out.ret, !.file_path = out.stored,
                                !.adapter_calls = IF put_ok THEN 1 ELSE 0]
       IN  /\ ApplyUpload(out)
           /\ IF out.ok
              THEN /\ req' = [req EXCEPT ![r] = [q EXCEPT !.pc = "invalidate",
                                                          !.commits = 1]]
                   /\ UNCHANGED response
              ELSE /\ response' = Respond(Answered(q), UploadFailureStatus, <<>>)
                   /\ UNCHANGED req
    /\ UNCHANGED <<projectVars, cache>>

\* POST /standards/bulk-upload arrives with n files.
BeginBulkUpload(r, n) ==
    /\ Free(r)
    /\ started' = started + 1
    /\ req' = [req EXCEPT ![r] = [IdleReq EXCEPT !.op = "bulk_upload", !.pc = "bulk_item",
                                                 !.files = n, !.todo = [i \in 1..n |-> i]]]
    /\ UNCHANGED <<projectVars, standards, standardVars, response>>

\* The except branch of the loop re-raises before it records anything.
RecordsFailure == FALSE

\* One turn of the loop of bulk_upload_standards.  A failure is re-raised and
\* ends the request; the items committed before it stay.
BulkUploadItem(r, put_ok, raw) ==
    /\ req[r].pc = "bulk_item"
    /\ req[r].op = "bulk_upload"
    /\ UploadFits(raw)
    /\ LET out == UploadOutcome(put_ok, raw)
           rest == Tail(req[r].todo)
           q == [req[r] EXCEPT !.todo = rest, !.sid = next_standard_id,
                               !.revs = out.inferred, !.dates = out.dates,
                               !.ret = out.ret, !.file_path = out.stored,
                               !.results = Append(@, IF out.ok THEN "success" ELSE "error"),
                               !.commits = IF out.ok THEN @ + 1 ELSE @]
       IN  /\ ApplyUpload(out)
           /\ IF out.ok \/ RecordsFailure
              THEN /\ req' = [req EXCEPT ![r] =
                                 [q EXCEPT !.pc = IF rest = <<>> THEN "invalidate"
                                                  ELSE "bulk_item"]]
                   /\ UNCHANGED response
              ELSE /\ response' = Respond(Answered([req[r] EXCEPT !.todo = rest,
                                                                 !.ret = out.ret,
                                                                 !.file_path = out.stored]),
                                          500, <<>>)
                   /\ req' = [req EXCEPT ![r] = IdleReq]
    /\ UNCHANGED <<projectVars, cache, started>>

\* ---------------------------------------------------------------------
\* The cache.
\* ---------------------------------------------------------------------

\* A key is the text after the prefix "fastapi-cache:".  The @cache decorator
\* builds "<namespace>:<md5 of function and arguments>" with an empty
\* namespace; CacheManager.generate_key builds "<endpoint>" followed by the
\* parameters.  head is the text before the part that depends on arguments.
\* The arguments of list_standards that reach the decorator's key builder are
\* the query parameters and the session object, whose text holds its address.
CacheArgs(page, sid, session) == [page |-> page, sid |-> sid, session |-> session]
default_key_builder(fn, args) == [head |-> "::", fn |-> fn, args |-> args]
generate_key(endpoint, args) == [head |-> endpoint, fn |-> "", args |-> args]

\* client.keys(prefix + endpoint + "*"): the keys whose text starts with the
\* endpoint name.
PatternMatches(key, endpoint) == key.head = endpoint

\* invalidate_by_pattern and invalidate_keys: a failure to get the client or
\* to talk to it is caught and printed.
invalidate_by_pattern(c, endpoint, client_ok) ==
    IF client_ok
    THEN Restrict(c, {k \in DOMAIN c : ~PatternMatches(k, endpoint)})
    ELSE c
invalidate_keys(c, keys, client_ok) ==
    IF client_ok THEN Restrict(c, DOMAIN c \ keys) ELSE c

invalidate_standards_list_cache(c, client_ok) ==
    invalidate_by_pattern(c, "list_standards", client_ok)
invalidate_standard_detail_cache(c, sid, client_ok) ==
    invalidate_keys(c, {generate_key("get_standard", CacheArgs(0, sid, 0))}, client_ok)

SuccessStatus(op) ==
    IF op \in {"create_standard", "upload_standard", "bulk_upload"} THEN 201
    ELSE IF op \in {"delete_standard", "reject_standard", "bulk_approve", "bulk_delete"}
    THEN 204
    ELSE 200

\* The routes whose tail invalidates the list pages only.
InvalidatesListOnly(op) ==
    op \in {"create_standard", "upload_standard", "bulk_upload", "bulk_approve",
            "bulk_delete"}

\* An exception of the cache client inside invalidate_by_pattern or
\* invalidate_keys is caught there and printed: it does not reach the route.
InvalidationRaisesOnFailure(client_ok) == ~client_ok
InvalidationRaises(client_ok) == FALSE

Logged(client_ok, calls) == IF client_ok THEN 0 ELSE calls

\* The tail of the mutating standards routes: the invalidations, then the
\* response.
InvalidateAndRespond(r, client_ok) ==
    /\ req[r].pc = "invalidate"
    /\ cache' = IF InvalidatesListOnly(req[r].op)
                THEN invalidate_standards_list_cache(cache, client_ok)
                ELSE invalidate_standard_detail_cache(
                         invalidate_standards_list_cache(cache, client_ok),
                         req[r].sid, client_ok)
    /\ LET q == [Answered(req[r]) EXCEPT
                    !.list_invalidated = TRUE,
                    !.logged = @ + Logged(client_ok,
                                          IF InvalidatesListOnly(req[r].op) THEN 1 ELSE 2)]
       IN  response' = IF InvalidationRaises(client_ok)
                       THEN Respond(q, 500, <<>>)
                       ELSE Respond(q, SuccessStatus(req[r].op), <<>>)
    /\ req' = [req EXCEPT ![r] = IdleReq]
    /\ UNCHANGED <<projectVars, standards, next_standard_id, revisions, next_revision_id,
                   blobs, next_blob, started>>

\* POST /standards/bulk-approve arrives with a list of ids.
BulkIds == UNION {[1..n -> StandardIds] : n \in 1..MaxFiles}

BeginBulkApprove(r, ids) ==
    /\ Free(r)
    /\ started' = started + 1
    /\ req' = [req EXCEPT ![r] = [IdleReq EXCEPT !.op = "bulk_approve", !.pc = "bulk_item",
                                                 !.todo = ids]]
    /\ UNCHANGED <<projectVars, standards, standardVars, response>>

\* One turn of the loop of bulk_approve_standards: approve_standard, then the
\* detail invalidation; an unknown id ends the request with 404.
BulkApproveItem(r, client_ok) ==
    /\ req[r].pc = "bulk_item"
    /\ req[r].op = "bulk_approve"
    /\ LET sid == Head(req[r].todo)
           rest == Tail(req[r].todo)
       IN
       IF get_standard_by_id(sid) = <<>>
       THEN /\ response' = Respond(Answered([req[r] EXCEPT !.sid = sid]), 404, <<>>)
            /\ req' = [req EXCEPT ![r] = IdleReq]
            /\ UNCHANGED <<standards, cache>>
       ELSE /\ standards' = [standards EXCEPT ![sid].approval_status = ApprovedStatus(@)]
            /\ cache' = invalidate_standard_detail_cache(cache, sid, client_ok)
            /\ req' = [req EXCEPT ![r] = [@ EXCEPT !.sid = sid, !.todo = rest,
                                                    !.commits = @ + 1,
                                                    !.logged = @ + Logged(client_ok, 1),
                                                    !.pc = IF rest = <<>> THEN "invalidate"
                                                           ELSE "bulk_item"]]
            /\ UNCHANGED response
    /\ UNCHANGED <<projectVars, next_standard_id, revisions, next_revision_id,
                   blobs, next_blob, started>>

\* POST /standards/bulk-delete arrives with a list of ids.
BeginBulkDelete(r, ids) ==
    /\ Free(r)
    /\ started' = started + 1
    /\ req' = [req EXCEPT ![r] = [IdleReq EXCEPT !.op = "bulk_delete", !.pc = "bulk_item",
                                                 !.todo = ids]]
    /\ UNCHANGED <<projectVars, standards, standardVars, response>>

\* One turn of the loop of bulk_delete_standard_files: delete_standard, taken
\* as one step, then the detail invalidation; an unknown id ends the request
\* with 404.
BulkDeleteItem(r, del_ok, client_ok) ==
    /\ req[r].pc = "bulk_item"
    /\ req[r].op = "bulk_delete"
    /\ LET sid == Head(req[r].todo)
           rest == Tail(req[r].todo)
           standard == get_standard_by_id(sid)
       IN
       IF standard = <<>>
       THEN /\ response' = Respond(Answered([req[r] EXCEPT !.sid = sid]), 404, <<>>)
            /\ req' = [req EXCEPT ![r] = IdleReq]
            /\ UNCHANGED <<standards, revisions, blobs, cache>>
       ELSE LET calls == StorageDeleteCalls(standard[1].file_path)
            IN  /\ blobs' = IF calls # <<>> THEN delete_file_from_do(calls[1], del_ok)
                            ELSE blobs
                /\ standards' = Restrict(standards, DOMAIN standards \ {sid})
                /\ revisions' = Restrict(revisions, DOMAIN revisions \ CascadeDeleted(sid))
                /\ cache' = invalidate_standard_detail_cache(cache, sid, client_ok)
                /\ req' = [req EXCEPT ![r] =
                              [@ EXCEPT !.sid = sid, !.todo = rest, !.commits = @ + 1,
                                        !.logged = @ + Logged(client_ok, 1),
                                        !.pc = IF rest = <<>> THEN "invalidate"
                                               ELSE "bulk_item"]]
                /\ UNCHANGED response
    /\ UNCHANGED <<projectVars, next_standard_id, next_revision_id, next_blob, started>>

\* GET /standards.  pageSize is fixed; no approval_status filter is sent.
PageSize == 1

Min(a, b) == IF a < b THEN a ELSE b
Max(a, b) == IF a < b THEN b ELSE a

get_standards_count == Cardinality(DOMAIN standards)

\* StandardBase.model_validate of a row whose file_path get_all_standards has
\* replaced by its presigned URL.
StandardItem(sid) ==
    [id |-> sid, name |-> standards[sid].name,
     file_path |-> IF standards[sid].file_path = <<>> THEN <<>>
                   ELSE <<generate_presigned_url(standards[sid].file_path[1])>>]

\* get_all_standards: the query has no ORDER BY, so OFFSET and LIMIT select
\* some rows of the right number.
get_all_standards(skip, limit) ==
    {S \in SUBSET DOMAIN standards :
        Cardinality(S) = Min(limit, Max(0, get_standards_count - skip))}

StandardPage(rows) ==
    [items |-> {StandardItem(sid) : sid \in rows}, total |-> get_standards_count]

\* The @cache decorator around list_standards, up to the return of the
\* function: a hit answers from the cache, a miss runs the two queries.
GetList(r, page, session, rows) ==
    /\ Free(r)
    /\ started' = started + 1
    /\ rows \in get_all_standards(page * PageSize, PageSize)
    /\ LET key == default_key_builder("list_standards", CacheArgs(page, 0, session))
           q == [IdleReq EXCEPT !.op = "list_standards", !.page = page,
                                !.session = session]
       IN
       IF key \in DOMAIN cache
       THEN /\ response' = Respond([q EXCEPT !.items = cache[key]], 200, <<>>)
            /\ UNCHANGED req
       ELSE /\ req' = [req EXCEPT ![r] = [q EXCEPT !.pc = "list_store",
                                                   !.items = StandardPage(rows),
                                                   !.db_queries = 2]]
            /\ UNCHANGED response
    /\ UNCHANGED <<projectVars, standards, standardVars>>

\* The decorator stores what the function returned, with expire=60, and the
\* page is returned.
ListStore(r) ==
    /\ req[r].pc = "list_store"
    /\ cache' = (default_key_builder("list_standards",
                     CacheArgs(req[r].page, 0, req[r].session)) :> req[r].items) @@ cache
    /\ response' = Respond(Answered(req[r]), 200, <<>>)
    /\ req' = [req EXCEPT ![r] = IdleReq]
    /\ UNCHANGED <<projectVars, standards, next_standard_id, revisions, next_revision_id,
                   blobs, next_blob, started>>

\* The store drops an entry when its 60 seconds are over; an entry stored
\* without a time-to-live would stay.
ExpireNever(key) == FALSE /\ UNCHANGED vars

Expire(key) ==
    /\ key \in DOMAIN cache
    /\ cache' = Restrict(cache, DOMAIN cache \ {key})
    /\ UNCHANGED <<projectVars, standards, next_standard_id, revisions, next_revision_id,
                   blobs, next_blob, req, started, response>>

\* GET /standards/{id}: what the response holds of the standard.
StandardDetail(sid) ==
    [id |-> sid, name |-> standards[sid].name, file_path |-> standards[sid].file_path,
     approval_status |-> standards[sid].approval_status,
     revisions |-> Restrict(revisions, OwnedRevisions(sid))]

\* The @cache decorator around get_standard, up to the return of the
\* function: a hit answers from the cache; on a miss the standard is loaded,
\* and a missing standard raises 404 past the decorator.
GetStandard(r, sid, session) ==
    /\ Free(r)
    /\ started' = started + 1
    /\ LET key == default_key_builder("get_standard", CacheArgs(0, sid, session))
           q == [IdleReq EXCEPT !.op = "get_standard", !.sid = sid, !.session = session]
       IN
       IF key \in DOMAIN cache
       THEN /\ response' = Respond([q EXCEPT !.detail = cache[key]], 200, <<>>)
            /\ UNCHANGED req
       ELSE IF get_standard_by_id(sid) = <<>>
       THEN /\ response' = Respond([q EXCEPT !.db_queries = 1], 404, <<>>)
            /\ UNCHANGED req
       ELSE /\ req' = [req EXCEPT ![r] = [q EXCEPT !.pc = "detail_store",
                                                   !.detail = <<StandardDetail(sid)>>,
                                                   !.db_queries = 1]]
            /\ UNCHANGED response
    /\ UNCHANGED <<projectVars, standards, standardVars>>

\* The decorator stores the standard returned, with expire=60.
DetailStore(r) ==
    /\ req[r].pc = "detail_store"
    /\ cache' = (default_key_builder("get_standard",
                     CacheArgs(0, req[r].sid, req[r].session)) :> req[r].detail) @@ cache
    /\ response' = Respond(Answered(req[r]), 200, <<>>)
    /\ req' = [req EXCEPT ![r] = IdleReq]
    /\ UNCHANGED <<projectVars, standards, next_standard_id, revisions, next_revision_id,
                   blobs, next_blob, started>>

\* The @cache decorator around get_project, up to the return of the
\* function; the routes that change projects call no invalidation.
GetProject(r, pid, session) ==
    /\ Free(r)
    /\ started' = started + 1
    /\ LET key == default_key_builder("get_project", CacheArgs(0, pid, session))
           q == [IdleReq EXCEPT !.op = "get_project", !.pid = pid, !.session = session]
       IN
       IF key \in DOMAIN cache
       THEN /\ response' = Respond([q EXCEPT !.detail = cache[key]], 200, <<>>)
            /\ UNCHANGED req
       ELSE IF get_project_by_id(pid) = <<>>
       THEN /\ response' = Respond([q EXCEPT !.db_queries = 1], 404, <<>>)
            /\ UNCHANGED req
       ELSE /\ req' = [req EXCEPT ![r] = [q EXCEPT !.pc = "project_store",
                                                   !.detail = get_project_by_id(pid),
                                                   !.db_queries = 1]]
            /\ UNCHANGED response
    /\ UNCHANGED <<projectVars, standards, standardVars>>

ProjectStore(r) ==
    /\ req[r].pc = "project_store"
    /\ cache' = (default_key_builder("get_project",
                     CacheArgs(0, req[r].pid, req[r].session)) :> req[r].detail) @@ cache
    /\ response' = Respond(Answered(req[r]), 200, <<>>)
    /\ req' = [req EXCEPT ![r] = IdleReq]
    /\ UNCHANGED <<projectVars, standards, next_standard_id, revisions, next_revision_id,
                   blobs, next_blob, started>>

\* The standards catalog the project requests run against: empty, or one
\* standard created with a file.
InitialCatalogs ==
    { [standards |-> <<>>, blobs |-> {}],
      [standards |-> (1 :> [name |-> 1, file_path |-> <<Path(1)>>,
                            approval_status |-> "approved",
                                        issueDate |-> NoDate, effectiveDate |-> NoDate]),
       blobs |-> {1}] }

InitRequests ==
    /\ req = [r \in Slots |-> IdleReq]
    /\ started = 0
    /\ response = NoResponse

EmptyDatabase ==
    /\ projects = <<>>
    /\ next_project_id = 1
    /\ map_log = <<>>
    /\ standards = <<>>
    /\ next_standard_id = 1
    /\ revisions = <<>>
    /\ next_revision_id = 1
    /\ blobs = {}
    /\ next_blob = 1
    /\ cache = <<>>

Init ==
    /\ projects = <<>>
    /\ next_project_id = 1
    /\ map_log = <<>>
    /\ \E c \in InitialCatalogs :
          /\ standards = c.standards
          /\ blobs = c.blobs
          /\ next_standard_id = Cardinality(DOMAIN c.standards) + 1
          /\ next_blob = Cardinality(c.blobs) + 1
    /\ revisions = <<>>
    /\ next_revision_id = 1
    /\ cache = <<>>
    /\ InitRequests

Next ==
    \/ \E r \in Slots, payload \in CreatePayloads : CreateProject(r, payload)
    \/ \E pid \in ProjectIds, payload \in UpdatePayloads : UpdateProject(pid, payload)
    \/ \E pid \in ProjectIds : DeleteProject(pid)
    \/ \E r \in Slots, pid \in ProjectIds : BeginMap(r, pid)
    \/ \E r \in Slots : MapLoad(r)
    \/ \E r \in Slots, raw \in RemoteOutcomes : MapInfer(r, raw)
    \/ \E r \in Slots : MapCommit(r)

Spec == Init /\ [][Next]_vars

\* The standards routes, from an empty database, in two specifications that
\* differ in the requests the clients send.  In SpecRev the requests carry
\* revisions and no file; in SpecFile they carry files and at most one
\* revision, and standards are deleted.
InitStd == EmptyDatabase /\ InitRequests

RevCreatePayloads == {p \in StandardCreatePayloads : ~p.file}
RevUpdatePayloads == {p \in StandardUpdatePayloads : ~p.file}

NextRev ==
    \/ \E r \in Slots, payload \in RevCreatePayloads :
          CreateStandard(r, payload, TRUE)
    \/ \E r \in Slots, sid \in StandardIds, payload \in RevUpdatePayloads :
          UpdateStandard(r, sid, payload, TRUE, TRUE)
    \/ \E r \in Slots, client_ok \in BOOLEAN : InvalidateAndRespond(r, client_ok)

SpecRev == InitStd /\ [][NextRev]_vars

FileCreatePayloads ==
    {p \in StandardCreatePayloads :
        Len(p.revisions) <= 1 /\ \A i \in DOMAIN p.revisions : p.revisions[i].id = 0}
FileUpdatePayloads == {p \in StandardUpdatePayloads : p.revisions = <<>>}

NextFile ==
    \/ \E r \in Slots, payload \in FileCreatePayloads, put_ok \in BOOLEAN :
          CreateStandard(r, payload, put_ok)
    \/ \E r \in Slots, sid \in StandardIds, payload \in FileUpdatePayloads,
           del_ok \in BOOLEAN, put_ok \in BOOLEAN :
          UpdateStandard(r, sid, payload, del_ok, put_ok)
    \/ \E r \in Slots, sid \in StandardIds, del_ok \in BOOLEAN :
          DeleteStandardLoad(r, sid, del_ok)
    \/ \E r \in Slots : DeleteStandardCommit(r)
    \/ \E r \in Slots, client_ok \in BOOLEAN : InvalidateAndRespond(r, client_ok)

SpecFile == InitStd /\ [][NextFile]_vars

\* The cached list of standards against creations, from an empty database.
\* The creations carry neither a file nor revisions.
CacheCreatePayloads ==
    {p \in StandardCreatePayloads : ~p.file /\ p.revisions = <<>>}

NextCache ==
    \/ \E r \in Slots, page \in Pages, session \in Sessions,
           rows \in SUBSET DOMAIN standards :
          GetList(r, page, session, rows)
    \/ \E r \in Slots : ListStore(r)
    \/ \E r \in Slots, payload \in CacheCreatePayloads :
          CreateStandard(r, payload, TRUE)
    \/ \E r \in Slots, client_ok \in BOOLEAN : InvalidateAndRespond(r, client_ok)
    \/ \E key \in DOMAIN cache : Expire(key)

SpecCache == InitStd /\ [][NextCache]_vars

\* The cached reads of standards against the operations on one standard.
\* The database starts empty, or with one standard created by hand, or with
\* one standard that was uploaded and awaits approval.
InvalidateCatalogs ==
    { [standards |-> <<>>, blobs |-> {}],
      [standards |-> (1 :> [name |-> 1, file_path |-> <<>>,
                            approval_status |-> "approved",
                                        issueDate |-> NoDate, effectiveDate |-> NoDate]),
       blobs |-> {}],
      [standards |-> (1 :> [name |-> 1, file_path |-> <<Path(1)>>,
                            approval_status |-> "pending",
                                        issueDate |-> NoDate, effectiveDate |-> NoDate]),
       blobs |-> {1}] }

InitInvalidate ==
    /\ projects = <<>>
    /\ next_project_id = 1
    /\ map_log = <<>>
    /\ \E c \in InvalidateCatalogs :
          /\ standards = c.standards
          /\ blobs = c.blobs
          /\ next_standard_id = Cardinality(DOMAIN c.standards) + 1
          /\ next_blob = Cardinality(c.blobs) + 1
    /\ revisions = <<>>
    /\ next_revision_id = 1
    /\ cache = <<>>
    /\ InitRequests

NameUpdatePayloads ==
    {p \in StandardUpdatePayloads : ~p.file /\ p.revisions = <<>> /\ p.name # <<>>}

NextInvalidate ==
    \/ \E r \in Slots, page \in Pages, session \in Sessions,
           rows \in SUBSET DOMAIN standards :
          GetList(r, page, session, rows)
    \/ \E r \in Slots : ListStore(r)
    \/ \E r \in Slots, sid \in StandardIds, session \in Sessions :
          GetStandard(r, sid, session)
    \/ \E r \in Slots : DetailStore(r)
    \/ \E r \in Slots, payload \in CacheCreatePayloads :
          CreateStandard(r, payload, TRUE)
    \/ \E r \in Slots, sid \in StandardIds, payload \in NameUpdatePayloads :
          UpdateStandard(r, sid, payload, TRUE, TRUE)
    \/ \E r \in Slots, sid \in StandardIds : ApproveStandard(r, sid)
    \/ \E r \in Slots, sid \in StandardIds, del_ok \in BOOLEAN :
          DeleteStandardLoad(r, sid, del_ok)
    \/ \E r \in Slots, sid \in StandardIds, del_ok \in BOOLEAN :
          RejectStandardLoad(r, sid, del_ok)
    \/ \E r \in Slots : DeleteStandardCommit(r)
    \/ \E r \in Slots, client_ok \in BOOLEAN : InvalidateAndRespond(r, client_ok)
    \/ \E key \in DOMAIN cache : Expire(key)

SpecInvalidate == InitInvalidate /\ [][NextInvalidate]_vars

\* The cached read of a project against the operations on projects.  There
\* are no standards; the database starts empty or with one project whose
\* mapping run failed.
ProjectCatalogs ==
    { <<>>, (1 :> [name |-> 1, standard_mapping |-> <<>>]) }

InitProjectCache ==
    /\ \E c \in ProjectCatalogs :
          /\ projects = c
          /\ next_project_id = Cardinality(DOMAIN c) + 1
          /\ map_log = [pid \in DOMAIN c |-> <<>>]
    /\ standards = <<>>
    /\ next_standard_id = 1
    /\ revisions = <<>>
    /\ next_revision_id = 1
    /\ blobs = {}
    /\ next_blob = 1
    /\ cache = <<>>
    /\ InitRequests

NextProjectCache ==
    \/ \E r \in Slots, pid \in ProjectIds, session \in Sessions : GetProject(r, pid, session)
    \/ \E r \in Slots : ProjectStore(r)
    \/ \E r \in Slots, payload \in CreatePayloads : CreateProject(r, payload)
    \/ \E pid \in ProjectIds, payload \in UpdatePayloads : UpdateProject(pid, payload)
    \/ \E pid \in ProjectIds : DeleteProject(pid)
    \/ \E r \in Slots, pid \in ProjectIds : BeginMap(r, pid)
    \/ \E r \in Slots : MapLoad(r)
    \/ \E r \in Slots, raw \in RemoteOutcomes : MapInfer(r, raw)
    \/ \E r \in Slots : MapCommit(r)
    \/ \E key \in DOMAIN cache : Expire(key)

SpecProjectCache == InitProjectCache /\ [][NextProjectCache]_vars

\* The approval workflow: uploads with inference, creation by hand, approval,
\* rejection, deletion and renaming, from an empty database.
NextApproval ==
    \/ \E r \in Slots, payload \in CacheCreatePayloads : CreateStandard(r, payload, TRUE)
    \/ \E r \in Slots, put_ok \in BOOLEAN, raw \in ExtractOutcomes :
          UploadStandard(r, put_ok, raw)
    \/ \E r \in Slots, n \in 1..MaxFiles : BeginBulkUpload(r, n)
    \/ \E r \in Slots, put_ok \in BOOLEAN, raw \in ExtractOutcomes :
          BulkUploadItem(r, put_ok, raw)
    \/ \E r \in Slots, sid \in StandardIds, payload \in NameUpdatePayloads :
          UpdateStandard(r, sid, payload, TRUE, TRUE)
    \/ \E r \in Slots, sid \in StandardIds : ApproveStandard(r, sid)
    \/ \E r \in Slots, ids \in BulkIds : BeginBulkApprove(r, ids)
    \/ \E r \in Slots, client_ok \in BOOLEAN : BulkApproveItem(r, client_ok)
    \/ \E r \in Slots, sid \in StandardIds, del_ok \in BOOLEAN :
          DeleteStandardLoad(r, sid, del_ok)
    \/ \E r \in Slots, sid \in StandardIds, del_ok \in BOOLEAN :
          RejectStandardLoad(r, sid, del_ok)
    \/ \E r \in Slots : DeleteStandardCommit(r)
    \/ \E r \in Slots, client_ok \in BOOLEAN : InvalidateAndRespond(r, client_ok)

SpecApproval == InitStd /\ [][NextApproval]_vars

\* Expiry.  The database holds one standard made by hand and one project, and
\* the cache holds the first list page, the standard's detail and the
\* project's detail, written by earlier GETs of requests whose session had
\* address 1.  The store drops every entry when its
\* 60 seconds are over: Expire(key) is taken for every key that stays.
CacheKeys ==
    {default_key_builder("list_standards", CacheArgs(page, 0, session)) :
        page \in Pages, session \in Sessions}
    \cup {default_key_builder("get_standard", CacheArgs(0, sid, session)) :
        sid \in StandardIds, session \in Sessions}
    \cup {default_key_builder("get_project", CacheArgs(0, pid, session)) :
        pid \in ProjectIds, session \in Sessions}

InitExpiry ==
    /\ projects = (1 :> [name |-> 1, standard_mapping |-> <<>>])
    /\ next_project_id = 2
    /\ map_log = (1 :> <<>>)
    /\ standards = (1 :> [name |-> 1, file_path |-> <<>>, approval_status |-> "approved",
                          issueDate |-> NoDate, effectiveDate |-> NoDate])
    /\ blobs = {}
    /\ next_standard_id = 2
    /\ next_blob = 1
    /\ revisions = <<>>
    /\ next_revision_id = 1
    /\ cache = (default_key_builder("list_standards", CacheArgs(0, 0, 1))
                    :> StandardPage({1}))
               @@ (default_key_builder("get_standard", CacheArgs(0, 1, 1))
                    :> <<StandardDetail(1)>>)
               @@ (default_key_builder("get_project", CacheArgs(0, 1, 1))
                    :> get_project_by_id(1))
    /\ InitRequests

NextExpiry ==
    \/ \E r \in Slots, page \in Pages, session \in Sessions,
           rows \in SUBSET DOMAIN standards :
          GetList(r, page, session, rows)
    \/ \E r \in Slots : ListStore(r)
    \/ \E r \in Slots, sid \in StandardIds, session \in Sessions :
          GetStandard(r, sid, session)
    \/ \E r \in Slots : DetailStore(r)
    \/ \E r \in Slots, pid \in ProjectIds, session \in Sessions : GetProject(r, pid, session)
    \/ \E r \in Slots : ProjectStore(r)
    \/ \E r \in Slots, payload \in CacheCreatePayloads :
          CreateStandard(r, payload, TRUE)
    \/ \E r \in Slots, sid \in StandardIds, payload \in NameUpdatePayloads :
          UpdateStandard(r, sid, payload, TRUE, TRUE)
    \/ \E pid \in ProjectIds, payload \in UpdatePayloads : UpdateProject(pid, payload)
    \/ \E r \in Slots, client_ok \in BOOLEAN : InvalidateAndRespond(r, client_ok)
    \/ \E key \in DOMAIN cache : Expire(key)

ExpiryFairness == \A key \in CacheKeys : WF_vars(Expire(key))

SpecExpiry == InitExpiry /\ [][NextExpiry]_vars /\ ExpiryFairness

\* The bulk requests on existing standards, next to creations.
NextBulk ==
    \/ \E r \in Slots, payload \in CacheCreatePayloads : CreateStandard(r, payload, TRUE)
    \/ \E r \in Slots, ids \in BulkIds : BeginBulkApprove(r, ids)
    \/ \E r \in Slots, client_ok \in BOOLEAN : BulkApproveItem(r, client_ok)
    \/ \E r \in Slots, ids \in BulkIds : BeginBulkDelete(r, ids)
    \/ \E r \in Slots, del_ok \in BOOLEAN, client_ok \in BOOLEAN :
          BulkDeleteItem(r, del_ok, client_ok)
    \/ \E r \in Slots, client_ok \in BOOLEAN : InvalidateAndRespond(r, client_ok)

SpecBulk == InitInvalidate /\ [][NextBulk]_vars

\* The requests that store a file for a new standard: uploads and bulk
\* uploads with the dates the model may return, and creation by hand with a
\* file, from an empty database.
UploadCreatePayloads == {p \in StandardCreatePayloads : p.file /\ p.revisions = <<>>}

NextUpload ==
    \/ \E r \in Slots, payload \in UploadCreatePayloads, put_ok \in BOOLEAN :
          CreateStandard(r, payload, put_ok)
    \/ \E r \in Slots, put_ok \in BOOLEAN, raw \in DatedOutcomes :
          UploadStandard(r, put_ok, raw)
    \/ \E r \in Slots, n \in 1..MaxFiles : BeginBulkUpload(r, n)
    \/ \E r \in Slots, put_ok \in BOOLEAN, raw \in DatedOutcomes :
          BulkUploadItem(r, put_ok, raw)
    \/ \E r \in Slots, client_ok \in BOOLEAN : InvalidateAndRespond(r, client_ok)

SpecUpload == InitStd /\ [][NextUpload]_vars

\* =================================================================== claims
Last(seq) == seq[Len(seq)]

\* The step of slot r that takes it out of pc value at.
StepFrom(r, at) == req[r].pc = at /\ req'[r] # req[r]

\* C1: when the inference adapter returns an error, nothing, or a payload that
\* does not parse as JSON, the mapping request ends there with status 500 and
\* no table is written: the project row is what it was.
C1_FailedMappingWritesNothing ==
    [][\A r \in Slots :
         (/\ StepFrom(r, "map_infer")
          /\ (IF req'[r].pc = "map_commit" THEN req'[r].ret ELSE response'.q.ret) # "json")
         => /\ req'[r] = IdleReq
            /\ projects' = projects
            /\ standards' = standards
            /\ map_log' = map_log
            /\ response'.q.commits = req[r].commits
            /\ (req[r].op = "map_standard" => response'.status = 500)]_vars

\* A mapping request on a project that already has a mapping failed on an
\* adapter error, and the mapping is still there.
C1_Witness ==
    /\ response.q.op = "map_standard"
    /\ response.status = 500
    /\ response.q.ret = "error_string"
    /\ response.q.pid \in DOMAIN projects
    /\ projects[response.q.pid].standard_mapping # <<>>

\* C2: a project's standard_mapping is null or a document that a successful
\* mapping run committed for it; no create or update payload sets it.
C2_MappingOnlyFromMappingRun ==
    \A p \in DOMAIN projects :
        \/ projects[p].standard_mapping = <<>>
        \/ \E i \in 1..Len(map_log[p]) :
              projects[p].standard_mapping = <<map_log[p][i]>>

C5_MissingProjectIs404 ==
    [][\A r \in Slots :
         (/\ StepFrom(r, "map_load")
          /\ req[r].op = "map_standard"
          /\ req[r].pid \notin DOMAIN projects)
         => /\ req'[r] = IdleReq
            /\ response'.status = 404
            /\ response'.q.adapter_calls = 0
            /\ response'.q.commits = 0
            /\ projects' = projects
            /\ standards' = standards
            /\ map_log' = map_log]_vars

C5_Witness ==
    /\ response.q.op = "map_standard"
    /\ response.status = 404
    /\ response.q.pid \notin DOMAIN projects
    /\ response.q.adapter_calls = 0

\* C6: every document a successful mapping run stores, and every document a
\* successful map_standard request returns, conforms to the target schema
\* (mappings, summary, confidence_score); two runs need not agree.
C6_StoredMappingIsSchemaValid ==
    /\ \A p \in DOMAIN projects :
          /\ \A i \in 1..Len(map_log[p]) : ProjectStandardListResponse(map_log[p][i])
          /\ map_log[p] # <<>> =>
                ProjectStandardListResponse(projects[p].standard_mapping[1])
    /\ (response.q.op = "map_standard" /\ response.status = 200) =>
          /\ response.body # <<>>
          /\ ProjectStandardListResponse(response.body[1])

\* map_standard succeeded twice in succession on one project.
C6_Witness ==
    /\ response.q.op = "map_standard"
    /\ response.status = 200
    /\ response.q.pid \in DOMAIN projects
    /\ started = 3
    /\ Len(map_log[response.q.pid]) = 2
    /\ response.q.seen = 1
    /\ ProjectStandardListResponse(response.body[1])

\* C7: when an update of a standard with a revisions payload commits, every
\* revision the standard owned whose id the payload omits is gone; the
\* entries whose id is not the id of a revision the standard owned yield one
\* new revision each, with an id never used before, owned by the standard and
\* carrying the entry's fields; every owned revision the payload names keeps
\* its id and its owner and carries the fields of its entry, so it is
\* unchanged when the entry repeats them; the revisions of the other
\* standards are untouched.
UpdateRevisionsStep(r) ==
    /\ req[r].pc = "idle"
    /\ req'[r].op = "update_standard"
    /\ req'[r].pc = "invalidate"
    /\ req'[r].revs # <<>>

C7_UpdateReplacesTheCollection ==
    [][\A r \in Slots : UpdateRevisionsStep(r) =>
          LET sid == req'[r].sid
              entries == req'[r].revs[1]
              existing == {id \in DOMAIN revisions : revisions[id].standard_id = sid}
              sent == {entries[i].id : i \in DOMAIN entries}
              unrecognized == {i \in DOMAIN entries : entries[i].id \notin existing}
              created == DOMAIN revisions' \ DOMAIN revisions
          IN  /\ \A id \in existing \ sent : id \notin DOMAIN revisions'
              /\ Cardinality(created) = Cardinality(unrecognized)
              /\ \A id \in created :
                    /\ id >= next_revision_id
                    /\ revisions'[id].standard_id = sid
              /\ \A i \in unrecognized : \E id \in created :
                    revisions'[id].revision_number = entries[i].revision_number
              /\ \A id \in existing \cap sent :
                    /\ id \in DOMAIN revisions'
                    /\ revisions'[id].standard_id = sid
                    /\ \E i \in DOMAIN entries :
                          /\ entries[i].id = id
                          /\ revisions'[id].revision_number = entries[i].revision_number
                    /\ (\A i \in DOMAIN entries : entries[i].id = id =>
                           entries[i].revision_number = revisions[id].revision_number)
                       => revisions'[id] = revisions[id]
              /\ \A id \in DOMAIN revisions \ existing :
                    id \in DOMAIN revisions' /\ revisions'[id] = revisions[id]
      ]_vars

\* An update has just committed that dropped one revision, kept another and
\* added a third.
C7_Witness ==
    \E r \in Slots :
        /\ req[r].op = "update_standard"
        /\ req[r].pc = "invalidate"
        /\ req[r].revs # <<>>
        /\ \E id \in req[r].existing : id \notin DOMAIN revisions
        /\ \E id \in req[r].existing : id \in OwnedRevisions(req[r].sid)
        /\ \E id \in OwnedRevisions(req[r].sid) : id \notin req[r].existing

\* C8: when the creation of a standard with k revisions commits, the new
\* standard owns exactly k revision rows, every row added is owned by it, and
\* the rows that existed are all still there, unchanged.
CreateStandardStep(r) ==
    /\ req[r].pc = "idle"
    /\ req'[r].op = "create_standard"
    /\ req'[r].pc = "invalidate"

C8_CreateOwnsExactlyItsRevisions ==
    [][\A r \in Slots : CreateStandardStep(r) =>
          LET sid == req'[r].sid
              k == Len(req'[r].revs[1])
          IN  /\ sid \notin DOMAIN standards
              /\ sid \in DOMAIN standards'
              /\ Cardinality({id \in DOMAIN revisions' :
                                 revisions'[id].standard_id = sid}) = k
              /\ \A id \in DOMAIN revisions' \ DOMAIN revisions :
                    revisions'[id].standard_id = sid
              /\ \A id \in DOMAIN revisions :
                    id \in DOMAIN revisions' /\ revisions'[id] = revisions[id]
      ]_vars

\* A standard has just been created with two revisions while another
\* standard owns a revision.
C8_Witness ==
    \E r \in Slots :
        /\ req[r].op = "create_standard"
        /\ req[r].pc = "invalidate"
        /\ Len(req[r].revs[1]) = 2
        /\ Cardinality(OwnedRevisions(req[r].sid)) = 2
        /\ \E id \in DOMAIN revisions : revisions[id].standard_id # req[r].sid

\* C9: a delete of a standard that has a file_path calls the storage delete
\* once, with that path, in a step where the row is still there; the later
\* commit removes the row whether or not the storage delete succeeded and
\* makes no further storage call; the request is answered 204.
C9_DeleteCallsStorageOnceThenRemoves ==
    [][\A r \in Slots :
          /\ (req[r].pc = "idle" /\ req'[r].pc = "delete_commit"
                /\ standards[req'[r].sid].file_path # <<>>) =>
                /\ req'[r].storage_deletes = standards[req'[r].sid].file_path
                /\ standards' = standards
          /\ (req[r].pc = "delete_commit" /\ req'[r] # req[r]
                /\ req[r].file_path # <<>>) =>
                /\ req[r].sid \notin DOMAIN standards'
                /\ req'[r].pc = "invalidate"
                /\ req'[r].storage_deletes = req[r].storage_deletes
                /\ Len(req[r].storage_deletes) = 1
          /\ (req[r].pc = "invalidate" /\ req'[r] # req[r]
                /\ req[r].op = "delete_standard") =>
                /\ response'.status = 204
                /\ response'.q.storage_deletes = req[r].file_path
      ]_vars

\* A delete was answered 204 although its storage delete failed: the row is
\* gone and the object is still in the store.
C9_Witness ==
    /\ response.q.op = "delete_standard"
    /\ response.status = 204
    /\ response.q.storage_deletes # <<>>
    /\ ~response.q.deleted
    /\ response.q.sid \notin DOMAIN standards
    /\ response.q.storage_deletes[1].blob \in blobs

\* C10: while the cache holds the page a GET /standards stored, a GET with
\* the same parameters runs no database query and returns that page; and when
\* a POST /standards runs its invalidation, no page of the list is left in
\* the cache, so that the next GET reads the database.
ListEntries(c) == {k \in DOMAIN c : k.fn = "list_standards"}

C10_CachedListServedUntilCreateInvalidates ==
    [][/\ \A r \in Slots :
             (req[r].pc = "idle" /\ req'[r].pc = "list_store") =>
                 ~\E k \in ListEntries(cache) : k.args.page = req'[r].page
       /\ \A r \in Slots :
             (req[r].pc = "invalidate" /\ req[r].op = "create_standard"
                /\ req'[r] # req[r]) =>
                 ListEntries(cache') = {}
      ]_vars

\* C11: when a mutating standards operation runs its invalidation, no page of
\* the standards list is left in the cache, and when the operation targets
\* one standard no detail entry of that standard is left either, so that no
\* later GET is answered from an entry written before the mutation.
DetailEntries(c, sid) == {k \in DOMAIN c : k.fn = "get_standard" /\ k.args.sid = sid}

TargetsOneStandard(op) ==
    op \in {"update_standard", "delete_standard", "approve_standard", "reject_standard"}

C11_MutationsInvalidateListAndDetail ==
    [][\A r \in Slots :
          (req[r].pc = "invalidate" /\ req'[r] # req[r]) =>
              /\ ListEntries(cache') = {}
              /\ TargetsOneStandard(req[r].op) =>
                    DetailEntries(cache', req[r].sid) = {}
      ]_vars

\* C12: once a mutating project operation has answered with success, the
\* cache holds no detail entry of the project it changed, so that a later
\* GET /projects/{id} does not serve the project as it was before.
MutatesProject(op) ==
    op \in {"create_project", "update_project", "delete_project", "map_standard"}

ProjectEntries(c, pid) == {k \in DOMAIN c : k.fn = "get_project" /\ k.args.sid = pid}

C12_ProjectMutationsInvalidate ==
    (MutatesProject(response.q.op) /\ response.status \in {200, 201, 204})
        => ProjectEntries(cache, response.q.pid) = {}

\* C13: once a reject has answered 204, the standard's row and its revisions
\* are gone and the cache holds no detail entry of it, so that every later
\* GET /standards/{id} finds nothing, whether or not a detail response was
\* cached before the reject.
C13_RejectedStandardIsGone ==
    (response.q.op = "reject_standard" /\ response.status = 204) =>
        /\ response.q.sid \notin DOMAIN standards
        /\ OwnedRevisions(response.q.sid) = {}
        /\ DetailEntries(cache, response.q.sid) = {}

\* The step in which slot r commits an approval.
ApproveStep(r) ==
    /\ req[r].pc = "idle"
    /\ req'[r].pc = "invalidate"
    /\ req'[r].op = "approve_standard"

\* C14: approving is idempotent.  The commit of an approval leaves the standard
\* approved and changes no other field, no revision and no stored file; on a
\* standard that is approved already it changes nothing at all, and the request
\* is answered with success.
C14_ApproveIsIdempotent ==
    [][\A r \in Slots :
          /\ ApproveStep(r) =>
                LET sid == req'[r].sid
                IN  /\ standards' = [standards EXCEPT ![sid].approval_status = "approved"]
                    /\ revisions' = revisions
                    /\ blobs' = blobs
                    /\ standards[sid].approval_status = "approved" => standards' = standards
          /\ (req[r].pc = "invalidate" /\ req[r].op = "approve_standard"
                /\ req'[r] # req[r]) => response'.status = 200 ]_vars

\* An approval of standard sid was answered with success and a second approval
\* of the same standard has committed.
C14_Witness ==
    /\ response.q.op = "approve_standard"
    /\ response.status = 200
    /\ \E r \in Slots :
          /\ req[r].op = "approve_standard"
          /\ req[r].pc = "invalidate"
          /\ req[r].sid = response.q.sid
          /\ req[r].sid \in DOMAIN standards
          /\ standards[req[r].sid].approval_status = "approved"

\* C15: a standard is pending or approved, and no request takes an approved
\* standard back to pending: as long as its row exists it stays approved.
C15_ApprovedNeverReturnsToPending ==
    /\ \A sid \in DOMAIN standards : standards[sid].approval_status \in {"pending", "approved"}
    /\ [][/\ \A sid \in DOMAIN standards' :
                standards'[sid].approval_status \in {"pending", "approved"}
          /\ \A sid \in DOMAIN standards \cap DOMAIN standards' :
                standards[sid].approval_status = "approved"
                    => standards'[sid].approval_status = "approved" ]_vars

\* A PUT on an approved standard has committed, while another standard is
\* still pending.
C15_Witness ==
    /\ \E r \in Slots :
          /\ req[r].op = "update_standard"
          /\ req[r].pc = "invalidate"
          /\ req[r].sid \in DOMAIN standards
          /\ standards[req[r].sid].approval_status = "approved"
    /\ \E sid \in DOMAIN standards : standards[sid].approval_status = "pending"

\* C16: a bulk upload answers with a report that has one entry per file,
\* whatever happened to each file.
C16_BulkUploadReportsEveryFile ==
    response.q.op = "bulk_upload" =>
        /\ response.status = 201
        /\ Len(response.q.results) = response.q.files

\* The step in which slot r commits a single-file upload.
UploadStep(r) ==
    /\ req[r].pc = "idle"
    /\ req'[r].pc = "invalidate"
    /\ req'[r].op = "upload_standard"

\* The step in which slot r commits one file of a bulk upload.
BulkItemStep(r) ==
    /\ req[r].pc = "bulk_item"
    /\ req[r].op = "bulk_upload"
    /\ req'[r].op = "bulk_upload"
    /\ req'[r].commits = req[r].commits + 1

\* The standard a step added is new, has the given status and owns as many
\* new revisions as n.
AddedWith(sid, status, n) ==
    /\ sid \notin DOMAIN standards
    /\ sid \in DOMAIN standards'
    /\ standards'[sid].approval_status = status
    /\ Cardinality({id \in DOMAIN revisions' : revisions'[id].standard_id = sid}) = n
    /\ {id \in DOMAIN revisions' : revisions'[id].standard_id = sid} \cap DOMAIN revisions = {}

\* C17: a standard persisted by the upload or the bulk upload is pending and
\* owns one revision per inferred revision; one persisted by the manual POST
\* is approved.
C17_UploadsArePendingManualIsApproved ==
    [][\A r \in Slots :
          /\ UploadStep(r) => AddedWith(req'[r].sid, "pending", Len(req'[r].revs[1]))
          /\ BulkItemStep(r) => AddedWith(req'[r].sid, "pending", Len(req'[r].revs[1]))
          /\ CreateStandardStep(r) => AddedWith(req'[r].sid, "approved", Len(req'[r].revs[1]))
      ]_vars

\* An upload with two inferred revisions has committed, while a standard
\* created by hand exists.
C17_Witness ==
    /\ \E r \in Slots :
          /\ req[r].op = "upload_standard"
          /\ req[r].pc = "invalidate"
          /\ Len(req[r].revs[1]) = 2
          /\ standards[req[r].sid].approval_status = "pending"
          /\ Cardinality(OwnedRevisions(req[r].sid)) = 2
    /\ \E sid \in DOMAIN standards : standards[sid].file_path = <<>>

\* The step in which a single-file upload ends without a commit.
UploadFailsStep ==
    /\ started' = started + 1
    /\ req' = req
    /\ response'.q.op = "upload_standard"

\* C18: a single-file upload whose inference fails is answered with a
\* 500-class error and persists neither a standard nor a revision.
C18_FailedUploadIsServerError ==
    [][UploadFailsStep =>
          /\ response'.status \in 500..599
          /\ standards' = standards
          /\ revisions' = revisions ]_vars

\* C19: a failing cache client does not fail the mutating request: whatever
\* the outcome of the invalidation, the committed change stays and the
\* response is the operation's success response.
C19_InvalidationFailureIsSwallowed ==
    [][\A r \in Slots :
          (req[r].pc = "invalidate" /\ req'[r] # req[r]) =>
              /\ response'.status = SuccessStatus(req[r].op)
              /\ response'.q.commits = req[r].commits
              /\ standards' = standards
              /\ revisions' = revisions ]_vars

\* An approval was answered with success although its invalidations failed,
\* and the standard is approved.
C19_Witness ==
    /\ response.q.op = "approve_standard"
    /\ response.q.logged > 0
    /\ response.q.commits = 1
    /\ response.status = 200
    /\ response.q.sid \in DOMAIN standards
    /\ standards[response.q.sid].approval_status = "approved"

\* C20: every revision references an existing standard, and the commit of a
\* deletion or rejection removes the standard together with all its revisions.
C20_RevisionsBelongToExistingStandards ==
    /\ \A id \in DOMAIN revisions : revisions[id].standard_id \in DOMAIN standards
    /\ [][/\ \A id \in DOMAIN revisions' : revisions'[id].standard_id \in DOMAIN standards'
          /\ \A r \in Slots :
                (req[r].pc = "delete_commit" /\ req'[r].pc = "invalidate") =>
                    /\ req[r].sid \notin DOMAIN standards'
                    /\ \A id \in DOMAIN revisions' : revisions'[id].standard_id # req[r].sid
      ]_vars

\* A rejection of a standard that owned two revisions has committed.
C20_Witness ==
    \E r \in Slots :
        /\ req[r].op = "reject_standard"
        /\ req[r].pc = "invalidate"
        /\ Cardinality(req[r].existing) = 2
        /\ req[r].sid \notin DOMAIN standards
        /\ DOMAIN revisions # {}

\* The step in which slot r commits an update of a standard.
UpdateCommitStep(r) ==
    /\ req[r].pc = "idle"
    /\ req'[r].op = "update_standard"
    /\ req'[r].pc = "invalidate"

\* C21: when an update commits, every revision of the standard that an entry
\* of the payload names by id is still there under that id, owned by the
\* standard, with the fields of the entry (of the last such entry when several
\* name it); an update without a revisions field leaves the revision rows and
\* the id counter as they were.
C21_KnownIdUpdatesInPlace ==
    [][\A r \in Slots : UpdateCommitStep(r) =>
          LET sid == req'[r].sid
              existing == {id \in DOMAIN revisions : revisions[id].standard_id = sid}
          IN  IF req'[r].revs = <<>>
              THEN /\ revisions' = revisions
                   /\ next_revision_id' = next_revision_id
              ELSE LET entries == req'[r].revs[1]
                   IN  \A i \in DOMAIN entries : entries[i].id \in existing =>
                          /\ entries[i].id \in DOMAIN revisions'
                          /\ revisions'[entries[i].id].standard_id = sid
                          /\ (\A j \in DOMAIN entries : entries[j].id = entries[i].id => j <= i)
                                => revisions'[entries[i].id].revision_number
                                      = entries[i].revision_number
      ]_vars

\* An update has committed whose payload names an owned revision and gives it
\* revision number 2, next to an entry that became a new revision.
C21_Witness ==
    \E r \in Slots :
        /\ req[r].op = "update_standard"
        /\ req[r].pc = "invalidate"
        /\ req[r].revs # <<>>
        /\ \E i \in DOMAIN req[r].revs[1] :
              LET e == req[r].revs[1][i]
              IN  /\ e.id \in req[r].existing
                  /\ e.revision_number = 2
                  /\ e.id \in OwnedRevisions(req[r].sid)
                  /\ revisions[e.id].revision_number = 2
        /\ \E id \in OwnedRevisions(req[r].sid) : id \notin req[r].existing

\* C30: when an update of standard S commits, every revision owned by another
\* standard is what it was, and every entry whose id is not the id of a
\* revision of S, were it the id of another standard's revision, has become
\* one new revision of S with an id no revision had before.
C30_OtherStandardsRevisionsUntouched ==
    [][\A r \in Slots : (UpdateCommitStep(r) /\ req'[r].revs # <<>>) =>
          LET sid == req'[r].sid
              entries == req'[r].revs[1]
              existing == {id \in DOMAIN revisions : revisions[id].standard_id = sid}
              foreign == {i \in DOMAIN entries : entries[i].id \notin existing}
              created == DOMAIN revisions' \ DOMAIN revisions
          IN  /\ \A id \in DOMAIN revisions \ existing :
                    /\ id \in DOMAIN revisions'
                    /\ revisions'[id] = revisions[id]
              /\ Cardinality(created) = Cardinality(foreign)
              /\ \A id \in created :
                    /\ id >= next_revision_id
                    /\ revisions'[id].standard_id = sid
              /\ \A n \in RevisionNumbers :
                    Cardinality({id \in created : revisions'[id].revision_number = n})
                        = Cardinality({i \in foreign : entries[i].revision_number = n})
      ]_vars

\* An update has committed whose payload named a revision of another
\* standard; that revision is still the other standard's and the updated
\* standard owns a revision that did not exist before.
C30_Witness ==
    \E r \in Slots :
        /\ req[r].op = "update_standard"
        /\ req[r].pc = "invalidate"
        /\ req[r].revs # <<>>
        /\ \E i \in DOMAIN req[r].revs[1] :
              LET id == req[r].revs[1][i].id
              IN  /\ id \in DOMAIN revisions
                  /\ revisions[id].standard_id # req[r].sid
                  /\ id \notin req[r].existing
        /\ \E id \in OwnedRevisions(req[r].sid) : id \notin req[r].existing

\* What the row holds for a date the model returned as text d (null is <<>>).
StoredFor(d) ==
    IF d = <<>> THEN <<>>
    ELSE IF d[1].fmt = "iso" /\ d[1].month \in 1..12 /\ d[1].day \in 1..DaysIn(d[1].month)
    THEN <<[month |-> d[1].month, day |-> d[1].day]>>
    ELSE <<>>

\* C22: an upload whose model call returned a conforming document commits
\* whatever its two dates are: a date given as year-month-day text of a day of
\* the calendar is stored as that date, and a null, empty or unparsable one is
\* stored as null.  An upload that fails did not get a document, or could not
\* store its file.
C22_UnparsableDatesAreStoredAsNull ==
    [][/\ \A r \in Slots : (UploadStep(r) \/ BulkItemStep(r)) =>
             LET row == standards'[req'[r].sid]
             IN  /\ row.issueDate = StoredFor(req'[r].dates[1])
                 /\ row.effectiveDate = StoredFor(req'[r].dates[2])
       /\ UploadFailsStep => response'.q.ret # "json"
       /\ \A r \in Slots :
             (req[r].pc = "bulk_item" /\ req'[r].pc = "idle") => response'.q.ret # "json"
      ]_vars

\* An upload has committed whose document gave an issue date that is not of
\* the calendar and an effective date written in another format; both are
\* null in the row.
C22_Witness ==
    \E r \in Slots :
        /\ req[r].op = "upload_standard"
        /\ req[r].pc = "invalidate"
        /\ req[r].dates # <<>>
        /\ req[r].dates[1] # <<>>
        /\ req[r].dates[1][1].fmt = "iso"
        /\ req[r].dates[1][1].month = MaxMonth
        /\ req[r].dates[2] # <<>>
        /\ req[r].dates[2][1].fmt = "other"
        /\ standards[req[r].sid].issueDate = NoDate
        /\ standards[req[r].sid].effectiveDate = NoDate

\* C26: when a create, upload or bulk-upload request ends, the file it stored
\* last, if it stored one, is the file_path of a standard.
C26_NoBlobLeftOwnerless ==
    [][(/\ response' # response
        /\ response'.q.op \in {"create_standard", "upload_standard", "bulk_upload"}
        /\ response'.q.file_path # <<>>)
       => /\ response'.q.file_path[1].blob \in blobs'
          /\ \E sid \in DOMAIN standards' :
                standards'[sid].file_path = response'.q.file_path ]_vars

\* The step in which slot r starts a GET /standards that finds no entry.
ListMissStep(r) == req[r].pc = "idle" /\ req'[r].pc = "list_store"

\* The step in which slot r starts a GET /standards/{id} that finds no entry
\* and finds the standard, and the same for GET /projects/{id}.
DetailMissStep(r) == req[r].pc = "idle" /\ req'[r].pc = "detail_store"
ProjectMissStep(r) == req[r].pc = "idle" /\ req'[r].pc = "project_store"

\* C23: every entry of the cache is dropped in the end, whether or not an
\* invalidation reached it; and a GET that finds no entry for its key queries
\* the database and returns what the tables hold at that moment.
C23_StaleEntriesExpire ==
    /\ \A key \in CacheKeys : (key \in DOMAIN cache) ~> (key \notin DOMAIN cache)
    /\ [][\A r \in Slots :
             /\ ListMissStep(r) =>
                   /\ req'[r].db_queries = 2
                   /\ req'[r].items.total = Cardinality(DOMAIN standards)
                   /\ \A it \in req'[r].items.items :
                         /\ it.id \in DOMAIN standards
                         /\ it.name = standards[it.id].name
             /\ DetailMissStep(r) =>
                   /\ req'[r].db_queries = 1
                   /\ req'[r].detail = <<StandardDetail(req'[r].sid)>>
             /\ ProjectMissStep(r) =>
                   /\ req'[r].db_queries = 1
                   /\ req'[r].detail = <<projects[req'[r].pid]>>
         ]_vars

\* The list page cached at the start for session address 1 was left in the
\* cache by a creation and has expired since: a GET with its key has queried
\* the database and returned the two standards there are now.
C23_Witness ==
    /\ response.q.op = "list_standards"
    /\ response.status = 200
    /\ response.q.page = 0
    /\ response.q.session = 1
    /\ response.q.db_queries = 2
    /\ response.q.items.total = 2
    /\ Cardinality(DOMAIN standards) = 2

\* C24: the commit of a mapping run changes no standard: every row of the
\* standards table, its file_path included, is what it was before the commit,
\* and no project other than the target is changed.
C24_MappingWritesOnlyTheProject ==
    [][\A r \in Slots : StepFrom(r, "map_commit") =>
          /\ standards' = standards
          /\ \A p \in DOMAIN projects : p # req[r].pid => projects'[p] = projects[p]
      ]_vars

\* C25: whenever no request is under way, the file_path of every standard that
\* has one names a blob that is in the object store; so it is after a PUT
\* whose upload of the new file failed.
C25_FilePathNamesAStoredBlob ==
    (\A r \in Slots : req[r].pc = "idle") =>
        \A sid \in DOMAIN standards :
            standards[sid].file_path # <<>> => standards[sid].file_path[1].blob \in blobs

\* C27: a bulk-delete or bulk-approve request that has committed a change to
\* at least one standard has called the invalidation of the list pages when it
\* ends, with whatever status it ends.
C27_BulkRequestsInvalidateTheList ==
    [][\A r \in Slots :
          (/\ req[r].op \in {"bulk_delete", "bulk_approve"}
           /\ req'[r].pc = "idle"
           /\ req[r].commits > 0)
          => response'.q.list_invalidated ]_vars

\* C28: once a creation has been answered, no GET /standards stores in the
\* cache a page it read before that creation committed: the page a GET stores
\* counts the standard the last answered creation made.
C28_NoPreMutationPageStoredAfterReturn ==
    [][\A r \in Slots :
          (/\ req[r].pc = "list_store"
           /\ req'[r].pc = "idle"
           /\ response.q.op = "create_standard"
           /\ response.status = 201)
          => req[r].items.total >= response.q.sid ]_vars

\* C29: POST /projects goes on to the mapping of the project it created,
\* whatever the tables hold; when that mapping fails on the model call, the
\* request is answered 201, no row is changed, and the project, for which no
\* mapping run has committed, has a null standard_mapping, in the table and in
\* the response.
C29_FailedMappingKeepsTheCreatedProject ==
    [][\A r \in Slots :
          /\ (StepFrom(r, "map_load") /\ req[r].op = "create_project")
                => req'[r].pc = "map_infer"
          /\ (StepFrom(r, "map_infer") /\ req[r].op = "create_project"
                /\ req'[r].pc = "idle")
                => /\ response'.status = 201
                   /\ response'.q.adapter_calls = 1
                   /\ projects' = projects
                   /\ (req[r].pid \in DOMAIN projects /\ map_log[req[r].pid] = <<>>)
                         => /\ projects[req[r].pid].standard_mapping = <<>>
                            /\ response'.body = <<>>
      ]_vars
====
